---- MODULE Spec2Model ----
(***************************************************************************)
(* A model of target_snowflake/file_formats/csv.py: the CSV batch encoder  *)
(* (record_to_csv_line, write_records_to_file, records_to_file) and the    *)
(* load-statement generator (select_from_stage, create_copy_sql,           *)
(* create_merge_sql).                                                      *)
(*                                                                         *)
(* Text is modelled as a sequence of tokens (strings).  The literal pieces *)
(* of an f-string are tokens of their own, interpolated arguments are      *)
(* token sequences, and string concatenation is \o.  Properties of a       *)
(* generated statement are stated on the flat token sequence and read it   *)
(* back by scanning for the keywords, as a reader of the SQL text would.   *)
(***************************************************************************)
EXTENDS Integers, Sequences, FiniteSets, TLC

VARIABLES
    columns,                \* SQL generator input: list of column expressions
    table_name,             \* SQL generator input
    stage_name,             \* SQL generator input
    s3_key,                 \* SQL generator input: object key on the stage
    file_format_name,       \* SQL generator input
    restrict_file_pattern,  \* SQL generator input
    pk_merge_condition,     \* SQL generator input (create_merge_sql only)
    sqlCall,                \* which generator function has returned
    statement,              \* the statement it returned
    schema,                 \* encoder input: the schema's column names, in order
    compression,            \* encoder input
    batch,                  \* per records_to_file call: its records, in iteration order
    pc,                     \* per call: where the call is
    pos,                    \* per call: the position of the next record to write
    fname,                  \* per call: the path mkstemp returned
    result,                 \* per call: the path returned to the caller
    fs,                     \* the files of the destination directory
    lineFlat,               \* a flattened record handed to the line builder
    lineState,              \* whether the line builder has run, and how it ended
    line                    \* the line it built

sqlVars == <<columns, table_name, stage_name, s3_key, file_format_name,
             restrict_file_pattern, pk_merge_condition, sqlCall, statement>>

encVars == <<schema, compression, batch, pc, pos, fname, result, fs>>

lineVars == <<lineFlat, lineState, line>>

vars == <<sqlVars, encVars, lineVars>>

-----------------------------------------------------------------------------
(* Bounds of the model.                                                    *)

MaxCols == 3
MaxKeyLen == 2
MaxStrLen == 2
MaxBatch == 2
NumCalls == 2

-----------------------------------------------------------------------------
(* Text helpers.                                                           *)

RECURSIVE Join(_, _)
\* sep.join(parts) for a list of texts
Join(sep, parts) ==
    IF Len(parts) = 0 THEN <<>>
    ELSE IF Len(parts) = 1 THEN parts[1]
    ELSE parts[1] \o sep \o Join(sep, Tail(parts))

\* all sequences over S of length lo..hi
SeqsOf(S, lo, hi) == UNION {[1..n -> S] : n \in lo..hi}

\* number of positions of text holding token tok
Count(text, tok) == Cardinality({i \in 1..Len(text) : text[i] = tok})

\* first position of tok in text at or after position from (0 when absent)
IndexFrom(text, tok, from) ==
    LET hits == {i \in from..Len(text) : text[i] = tok}
    IN IF hits = {} THEN 0 ELSE CHOOSE i \in hits : \A j \in hits : i <= j

\* last position of tok in text (0 when absent)
LastIndex(text, tok) ==
    LET hits == {i \in 1..Len(text) : text[i] = tok}
    IN IF hits = {} THEN 0 ELSE CHOOSE i \in hits : \A j \in hits : i >= j

\* the text strictly between the first token a and the next token b after it
Between(text, a, b) ==
    LET p == IndexFrom(text, a, 1)
        q == IF p = 0 THEN 0 ELSE IndexFrom(text, b, p + 1)
    IN IF p = 0 \/ q = 0 THEN <<>> ELSE SubSeq(text, p + 1, q - 1)

RECURSIVE Split(_, _)
\* the parts of text separated by token sep; the empty text has no parts
Split(text, sep) ==
    IF Len(text) = 0 THEN <<>>
    ELSE LET p == IndexFrom(text, sep, 1)
         IN IF p = 0 THEN <<text>>
            ELSE IF p = Len(text) THEN <<SubSeq(text, 1, p - 1), <<>> >>
            ELSE <<SubSeq(text, 1, p - 1)>> \o Split(SubSeq(text, p + 1, Len(text)), sep)

IsPrefix(p, t) == Len(p) <= Len(t) /\ SubSeq(t, 1, Len(p)) = p

-----------------------------------------------------------------------------
(* Load SQL generator: select_from_stage.                                  *)

\* idx after the loop body has seen `column`
NextIdxEveryColumn(column, idx) == idx + 1

NextIdx(column, idx) ==
    IF column.value = <<>> THEN idx + 1 ELSE idx

\* expr after the loop body, idx being the value already incremented
SourceExpr(column, idx) ==
    IF column.value = <<>>
    THEN column.trans \o <<"(", "$" \o ToString(idx), ")">>
    ELSE column.value

\* ' '.join([expr, column['name']])
FullExpr(column, idx) == SourceExpr(column, idx) \o <<" ">> \o column.name

RECURSIVE ColumnExpressions(_, _, _, _)
\* the for loop: i is the position in the list, acc is column_expressions
ColumnExpressions(cols, i, idx, acc) ==
    IF i > Len(cols) THEN acc
    ELSE LET idx2 == NextIdx(cols[i], idx)
         IN ColumnExpressions(cols, i + 1, idx2, Append(acc, FullExpr(cols[i], idx2)))

SelectOptionsNoPattern(fmt, key, restrict) == << <<"FILE_FORMAT", fmt>> >>

\* select_options, an insertion-ordered dict, as a list of <<key, value>>
SelectOptions(fmt, key, restrict) ==
    IF restrict
    THEN << <<"FILE_FORMAT", fmt>>, <<"PATTERN", key>> >>
    ELSE << <<"FILE_FORMAT", fmt>> >>

OptionsClause(opts) ==
    Join(<<", ">>, [i \in 1..Len(opts) |-> <<opts[i][1], " => '">> \o opts[i][2] \o <<"'">>])

SelectFromStage(cols, fmt, key, stage, restrict) ==
    LET p_source_columns == Join(<<", ">>, ColumnExpressions(cols, 1, 0, <<>>))
        options_clause == OptionsClause(SelectOptions(fmt, key, restrict))
    IN <<"SELECT ">> \o p_source_columns \o <<" FROM '@">> \o stage \o <<"/">> \o key
         \o <<"' (">> \o options_clause \o <<")">>

-----------------------------------------------------------------------------
(* Load SQL generator: create_copy_sql and create_merge_sql.               *)

ColumnNames(cols) == [i \in 1..Len(cols) |-> cols[i].name]

CreateCopySqlUnrestricted(table, stage, key, fmt, cols, restrict) ==
    <<"COPY INTO ">> \o table \o <<" (">> \o Join(<<", ">>, ColumnNames(cols))
      \o <<") FROM (">> \o SelectFromStage(cols, fmt, key, stage, FALSE) \o <<")">>

CreateCopySql(table, stage, key, fmt, cols, restrict) ==
    LET p_columns == Join(<<", ">>, ColumnNames(cols))
        select_statement == SelectFromStage(cols, fmt, key, stage, restrict)
    IN <<"COPY INTO ">> \o table \o <<" (">> \o p_columns \o <<") FROM (">>
         \o select_statement \o <<")">>

UpdateListStagedOnly(cols) ==
    LET staged == SelectSeq(cols, LAMBDA c : c.value = <<>>)
    IN [i \in 1..Len(staged) |-> staged[i].name \o <<"=s.">> \o staged[i].name]

\* [f"{c['name']}=s.{c['name']}" for c in columns]
UpdateList(cols) == [i \in 1..Len(cols) |-> cols[i].name \o <<"=s.">> \o cols[i].name]

\* [f"s.{c['name']}" for c in columns]
InsertValues(cols) == [i \in 1..Len(cols) |-> <<"s.">> \o cols[i].name]

CreateMergeSql(table, stage, key, fmt, cols, pk, restrict) ==
    LET p_update == Join(<<", ">>, UpdateList(cols))
        p_insert_cols == Join(<<", ">>, ColumnNames(cols))
        p_insert_values == Join(<<", ">>, InsertValues(cols))
        select_statement == SelectFromStage(cols, fmt, key, stage, restrict)
    IN <<"MERGE INTO ">> \o table \o <<" t USING (">> \o select_statement \o <<") s ON ">>
         \o pk \o <<" ">>
         \o <<"WHEN MATCHED", " THEN UPDATE SET ">> \o p_update \o <<" ">>
         \o <<"WHEN NOT MATCHED", " THEN ">>
         \o <<"INSERT (">> \o p_insert_cols \o <<") ">>
         \o <<"VALUES (">> \o p_insert_values \o <<")">>

-----------------------------------------------------------------------------
(* Values of a record.  A value carries its Python type t, a number n (the *)
(* integer, 1/0 for True/False, the number of elements of a collection)    *)
(* and, for a string, its characters s.                                    *)

NoneValue == [t |-> "none", n |-> 0, s |-> <<>>]
BoolValue(b) == [t |-> "bool", n |-> IF b THEN 1 ELSE 0, s |-> <<>>]
IntValue(i) == [t |-> "int", n |-> i, s |-> <<>>]
StrValue(chars) == [t |-> "str", n |-> 0, s |-> chars]
ListValue(k) == [t |-> "list", n |-> k, s |-> <<>>]
DictValue(k) == [t |-> "dict", n |-> k, s |-> <<>>]
\* a value json cannot serialize (a datetime, a Decimal)
ObjectValue == [t |-> "object", n |-> 0, s |-> <<>>]
\* a list that holds such a value
BadListValue == [t |-> "badlist", n |-> 1, s |-> <<>>]

\* Python's `v == 0`
EqualsZero(v) == v.t \in {"bool", "int"} /\ v.n = 0

\* Python's truth value of v
Truthy(v) ==
    CASE v.t = "none" -> FALSE
      [] v.t \in {"bool", "int"} -> v.n # 0
      [] v.t = "str" -> v.s # <<>>
      [] v.t \in {"list", "dict", "badlist"} -> v.n > 0
      [] OTHER -> TRUE

\* json's escape of one character of a string (ensure_ascii=False)
EscapeCharKeepsNewline(ch) ==
    CASE ch = "\"" -> <<"\\", "\"">>
      [] ch = "\\" -> <<"\\", "\\">>
      [] OTHER -> <<ch>>

EscapeCharKeepsQuote(ch) ==
    CASE ch = "\\" -> <<"\\", "\\">>
      [] ch = "\n" -> <<"\\", "n">>
      [] OTHER -> <<ch>>

EscapeChar(ch) ==
    CASE ch = "\"" -> <<"\\", "\"">>
      [] ch = "\\" -> <<"\\", "\\">>
      [] ch = "\n" -> <<"\\", "n">>
      [] OTHER -> <<ch>>

RECURSIVE EscapeJson(_)
EscapeJson(chars) ==
    IF chars = <<>> THEN <<>> ELSE EscapeChar(Head(chars)) \o EscapeJson(Tail(chars))

\* json.dumps(v) of a value json can serialize; the elements of a collection
\* are the number 1, the keys of a dict k1, k2, ...
JsonDumps(v) ==
    CASE v.t = "none" -> <<"null">>
      [] v.t = "bool" -> IF v.n = 1 THEN <<"true">> ELSE <<"false">>
      [] v.t = "int" -> <<ToString(v.n)>>
      [] v.t = "str" -> <<"\"">> \o EscapeJson(v.s) \o <<"\"">>
      [] v.t = "list" -> <<"[">> \o Join(<<",", " ">>, [i \in 1..v.n |-> <<"1">>]) \o <<"]">>
      [] v.t = "dict" ->
            <<"{">> \o Join(<<",", " ">>,
                            [i \in 1..v.n |-> <<"\"", "k" \o ToString(i), "\"", ":", " ", "1">>])
                    \o <<"}">>

\* whether json.dumps(v) returns rather than raises TypeError
Serializable(v) == v.t \notin {"object", "badlist"}

-----------------------------------------------------------------------------
(* Flattener (target_snowflake.flattening.flatten_record), after its       *)
(* specification: at the default max_level 0 no field is expanded; a       *)
(* nested value is serialized as a single string value and every other     *)
(* value is kept.  It fails when a nested value cannot be represented.     *)

DataFlatteningMaxLevel == 0

\* ok is FALSE when flattening raises
FlattenRecord(record, max_level) ==
    IF \E k \in DOMAIN record : record[k].t = "badlist"
    THEN [ok |-> FALSE, flat |-> record]
    ELSE [ok |-> TRUE,
          flat |-> [k \in DOMAIN record |->
                      IF record[k].t \in {"list", "dict"}
                      THEN StrValue(JsonDumps(record[k]))
                      ELSE record[k]]]

-----------------------------------------------------------------------------
(* Batch encoder: record_to_csv_line.                                      *)

EmittedTruthyOnly(flat, column) ==
    column \in DOMAIN flat /\ Truthy(flat[column])

\* the condition of the comprehension: column in flatten_record and
\* (flatten_record[column] == 0 or flatten_record[column])
Emitted(flat, column) ==
    column \in DOMAIN flat /\ (EqualsZero(flat[column]) \/ Truthy(flat[column]))

PresentColumns(flat, sch) == SelectSeq(sch, LAMBDA column : column \in DOMAIN flat)

\* the columns the comprehension visits, in order: for column in schema
LineColumns(flat, sch) == sch

\* the line of an already flattened record: ok is FALSE when json.dumps raises
CsvLine(flat, sch) ==
    LET cols == LineColumns(flat, sch)
        emitted == {j \in 1..Len(cols) : Emitted(flat, cols[j])}
    IN IF \E j \in emitted : ~Serializable(flat[cols[j]])
       THEN [ok |-> FALSE, text |-> <<>>]
       ELSE [ok |-> TRUE,
             text |-> Join(<<",">>, [j \in 1..Len(cols) |->
                                        IF j \in emitted THEN JsonDumps(flat[cols[j]])
                                        ELSE <<>>])]

\* lines 89-97: ok is FALSE when flatten_record or json.dumps raises
RecordToCsvLine(record, sch, max_level) ==
    LET flatten_record == FlattenRecord(record, max_level)
    IN IF flatten_record.ok THEN CsvLine(flatten_record.flat, sch)
       ELSE [ok |-> FALSE, text |-> <<>>]

-----------------------------------------------------------------------------
(* Batch encoder: records_to_file and write_records_to_file.               *)

Calls == 1..NumCalls

\* the random part of a temporary file name; one name more than there are calls
RandomNames == 1..(NumCalls + 1)

FileSuffix(compress) == IF compress THEN ".csv.gz" ELSE ".csv"

\* a path is the destination directory, the prefix, a random part and the suffix;
\* directory and prefix are the same for every call
Paths == [rand : RandomNames, suffix : {".csv", ".csv.gz"}]

NoPath == [rand |-> 0, suffix |-> ""]

NoFile == [exists |-> FALSE, content |-> <<>>]

AnyPath(files, suffix) == {p \in Paths : p.suffix = suffix}

\* mkstemp opens with O_CREAT | O_EXCL and tries another name when the file
\* exists: it returns a path that did not exist
FreshPaths(files, suffix) == {p \in Paths : p.suffix = suffix /\ ~files[p].exists}

\* lines 145-153: the directory, the suffix, and the file mkstemp creates
Mkstemp(c) ==
    /\ pc[c] = "start"
    /\ \E p \in FreshPaths(fs, FileSuffix(compression)) :
          /\ fs' = [fs EXCEPT ![p] = [exists |-> TRUE, content |-> <<>>]]
          /\ fname' = [fname EXCEPT ![c] = p]
    /\ pc' = [pc EXCEPT ![c] = "write"]
    /\ pos' = [pos EXCEPT ![c] = 1]
    /\ UNCHANGED <<schema, compression, batch, result, sqlVars, lineVars>>

WriteRecordSkipsFailure(c) ==
    /\ pc[c] = "write"
    /\ pos[c] <= Len(batch[c])
    /\ LET csv_line == RecordToCsvLine(batch[c][pos[c]], schema, DataFlatteningMaxLevel)
       IN fs' = IF csv_line.ok
                THEN [fs EXCEPT ![fname[c]].content = @ \o csv_line.text \o <<"\n">>]
                ELSE fs
    /\ pos' = [pos EXCEPT ![c] = @ + 1]
    /\ UNCHANGED <<schema, compression, batch, pc, fname, result, sqlVars, lineVars>>

\* one iteration of the loop of write_records_to_file (lines 118-120): the line
\* is built and written; an exception of the line builder leaves the loop and
\* both with blocks, which close the file, and reaches the caller
WriteRecord(c) ==
    /\ pc[c] = "write"
    /\ pos[c] <= Len(batch[c])
    /\ LET csv_line == RecordToCsvLine(batch[c][pos[c]], schema, DataFlatteningMaxLevel)
       IN IF csv_line.ok
          THEN /\ fs' = [fs EXCEPT ![fname[c]].content = @ \o csv_line.text \o <<"\n">>]
               /\ pos' = [pos EXCEPT ![c] = @ + 1]
               /\ pc' = pc
          ELSE /\ pc' = [pc EXCEPT ![c] = "raised"]
               /\ UNCHANGED <<fs, pos>>
    /\ UNCHANGED <<schema, compression, batch, fname, result, sqlVars, lineVars>>

\* the loop is over: the file is closed and its name returned (line 164)
ReturnFilename(c) ==
    /\ pc[c] = "write"
    /\ pos[c] > Len(batch[c])
    /\ pc' = [pc EXCEPT ![c] = "returned"]
    /\ result' = [result EXCEPT ![c] = fname[c]]
    /\ UNCHANGED <<schema, compression, batch, pos, fname, fs, sqlVars, lineVars>>

\* the column expressions of a load of the schema's columns: no literal
\* values, no transformation
SchemaColumns(sch) ==
    [j \in 1..Len(sch) |-> [name |-> <<sch[j]>>, value |-> <<>>, trans |-> <<>>]]

\* the staged read of an encoded file: select_from_stage over the schema's columns
LoadStatement ==
    /\ sqlCall = "none"
    /\ \E c \in Calls : pc[c] = "returned"
    /\ columns' = SchemaColumns(schema)
    /\ statement' = SelectFromStage(SchemaColumns(schema), file_format_name, s3_key,
                                    stage_name, restrict_file_pattern)
    /\ sqlCall' = "select"
    /\ UNCHANGED <<table_name, stage_name, s3_key, file_format_name,
                   restrict_file_pattern, pk_merge_condition, encVars, lineVars>>

\* line 91-97 on a flattened record
BuildLine ==
    /\ lineState = "none"
    /\ LET csv_line == CsvLine(lineFlat, schema)
       IN /\ lineState' = IF csv_line.ok THEN "built" ELSE "raised"
          /\ line' = csv_line.text
    /\ UNCHANGED <<lineFlat, sqlVars, encVars>>

-----------------------------------------------------------------------------
(* Inputs of the SQL generator.                                            *)

ColumnNameSet == {<<"a">>, <<"b">>}

\* value and trans of a column expression: a staged column with or without a
\* transformation, or a literal SQL value (its trans is not read)
ColumnSources ==
    { [value |-> <<>>, trans |-> <<"to_number">>],
      [value |-> <<>>, trans |-> <<>>],
      [value |-> <<"'x'">>, trans |-> <<>>] }

ColumnSet ==
    {[name |-> n, value |-> s.value, trans |-> s.trans] : n \in ColumnNameSet, s \in ColumnSources}

KeyChars == {"1", "."}

KeySet == SeqsOf(KeyChars, 1, MaxKeyLen)

\* the caller's join condition, and one that carries a clause of its own
PkConditions ==
    { <<"s.a = t.a">>,
      <<"s.a = t.a", " ", "WHEN MATCHED", " AND s.b IS NULL THEN DELETE">> }

\* the state of the parts a specification does not run
EncIdle ==
    /\ schema = <<"c1">>
    /\ compression = FALSE
    /\ batch = [c \in Calls |-> <<>>]
    /\ pc = [c \in Calls |-> "unused"]
    /\ pos = [c \in Calls |-> 1]
    /\ fname = [c \in Calls |-> NoPath]
    /\ result = [c \in Calls |-> NoPath]
    /\ fs = [p \in Paths |-> NoFile]

LineIdle ==
    /\ lineFlat = [k \in {} |-> NoneValue]
    /\ lineState = "unused"
    /\ line = <<>>

InitSql ==
    /\ columns \in SeqsOf(ColumnSet, 0, MaxCols)
    /\ table_name = <<"tbl">>
    /\ stage_name = <<"stg">>
    /\ s3_key \in KeySet
    /\ file_format_name = <<"fmt">>
    /\ restrict_file_pattern \in BOOLEAN
    /\ pk_merge_condition \in PkConditions
    /\ sqlCall = "none"
    /\ statement = <<>>
    /\ EncIdle
    /\ LineIdle

SqlInputsUnchanged ==
    UNCHANGED <<columns, table_name, stage_name, s3_key, file_format_name,
                restrict_file_pattern, pk_merge_condition>>

CallSelectFromStage ==
    /\ sqlCall = "none"
    /\ statement' = SelectFromStage(columns, file_format_name, s3_key, stage_name,
                                    restrict_file_pattern)
    /\ sqlCall' = "select"
    /\ SqlInputsUnchanged
    /\ UNCHANGED <<encVars, lineVars>>

CallCreateCopySql ==
    /\ sqlCall = "none"
    /\ statement' = CreateCopySql(table_name, stage_name, s3_key, file_format_name,
                                  columns, restrict_file_pattern)
    /\ sqlCall' = "copy"
    /\ SqlInputsUnchanged
    /\ UNCHANGED <<encVars, lineVars>>

CallCreateMergeSql ==
    /\ sqlCall = "none"
    /\ statement' = CreateMergeSql(table_name, stage_name, s3_key, file_format_name,
                                   columns, pk_merge_condition, restrict_file_pattern)
    /\ sqlCall' = "merge"
    /\ SqlInputsUnchanged
    /\ UNCHANGED <<encVars, lineVars>>

NextSql ==
    \/ CallSelectFromStage
    \/ CallCreateCopySql
    \/ CallCreateMergeSql

SpecSql == InitSql /\ [][NextSql]_vars

-----------------------------------------------------------------------------
(* Inputs of the encoder.                                                  *)

\* the SQL generator's inputs for the load of an encoded file
SqlForLoad ==
    /\ columns = <<>>
    /\ table_name = <<"tbl">>
    /\ stage_name = <<"stg">>
    /\ s3_key = <<"1">>
    /\ file_format_name = <<"fmt">>
    /\ restrict_file_pattern = TRUE
    /\ pk_merge_condition = <<"s.a = t.a">>
    /\ sqlCall = "none"
    /\ statement = <<>>

StrChars == {"n", ",", "\"", "\\", "\n"}

\* one call, records of every kind: missing keys, an extra key, null, zero, a
\* string holding the delimiter and a newline, a nested value, and a value
\* that cannot be serialized
FileSchemas == {<<"c1">>, <<"c1", "c2">>, <<"c2", "c1">>}

FileValues ==
    {NoneValue, IntValue(0), StrValue(<<",", "\n">>), ListValue(2), ObjectValue}

FileRecords ==
    {r \in UNION {[K -> FileValues] : K \in SUBSET {"c1", "c2"}} :
        "c2" \in DOMAIN r => r["c2"] = StrValue(<<",", "\n">>)}
      \cup {[k \in {"c1", "x"} |-> IF k = "c1" THEN IntValue(1) ELSE v] :
                v \in {StrValue(<<"n">>), BadListValue}}

InitFile ==
    /\ schema \in FileSchemas
    /\ compression \in BOOLEAN
    /\ \E b \in SeqsOf(FileRecords, 0, MaxBatch) :
          batch = [c \in Calls |-> IF c = 1 THEN b ELSE <<>>]
    /\ pc = [c \in Calls |-> IF c = 1 THEN "start" ELSE "unused"]
    /\ pos = [c \in Calls |-> 1]
    /\ fname = [c \in Calls |-> NoPath]
    /\ result = [c \in Calls |-> NoPath]
    /\ fs = [p \in Paths |-> NoFile]
    /\ SqlForLoad
    /\ LineIdle

\* concurrent calls: the records of call c hold the number c, so that a row
\* tells which call wrote it; a batch may end in a record that cannot be
\* serialized
ConcBatches(c) ==
    { [i \in 1..MaxBatch |-> [k \in {"c1"} |-> IntValue(c)]],
      [i \in 1..MaxBatch |-> [k \in {"c1"} |-> IF i = MaxBatch THEN ObjectValue
                                                               ELSE IntValue(c)]] }

InitConc ==
    /\ schema = <<"c1">>
    /\ compression \in BOOLEAN
    /\ batch \in {b \in [Calls -> UNION {ConcBatches(c) : c \in Calls}] :
                     \A c \in Calls : b[c] \in ConcBatches(c)}
    /\ pc = [c \in Calls |-> "start"]
    /\ pos = [c \in Calls |-> 1]
    /\ fname = [c \in Calls |-> NoPath]
    /\ result = [c \in Calls |-> NoPath]
    /\ fs = [p \in Paths |-> NoFile]
    /\ SqlForLoad
    /\ LineIdle

NextEnc ==
    \/ \E c \in Calls : Mkstemp(c)
    \/ \E c \in Calls : WriteRecord(c)
    \/ \E c \in Calls : ReturnFilename(c)
    \/ LoadStatement

SpecFile == InitFile /\ [][NextEnc]_vars

SpecConc == InitConc /\ [][NextEnc]_vars

\* a flattened record handed to the line builder: the scalars a flattened
\* record holds, the empty collections, and a value that cannot be serialized
LineValues ==
    {NoneValue, BoolValue(FALSE), BoolValue(TRUE), IntValue(0), IntValue(1),
     ListValue(0), DictValue(0), ObjectValue}
      \cup {StrValue(chars) : chars \in SeqsOf(StrChars, 0, MaxStrLen)}

LineSchemas == {<<"c1">>, <<"c1", "c2">>}

\* record r with a key that is no column of any schema
WithExtraKey(r, v) == [k \in DOMAIN r \cup {"x"} |-> IF k = "x" THEN v ELSE r[k]]

LineRecords ==
    LET plain == UNION {[K -> LineValues] : K \in SUBSET {"c1", "c2"}}
    IN plain \cup {WithExtraKey(r, IntValue(1)) : r \in plain}

InitLine ==
    /\ lineFlat \in LineRecords
    /\ lineState = "none"
    /\ line = <<>>
    /\ schema \in LineSchemas
    /\ compression = FALSE
    /\ batch = [c \in Calls |-> <<>>]
    /\ pc = [c \in Calls |-> "unused"]
    /\ pos = [c \in Calls |-> 1]
    /\ fname = [c \in Calls |-> NoPath]
    /\ result = [c \in Calls |-> NoPath]
    /\ fs = [p \in Paths |-> NoFile]
    /\ SqlForLoad

NextLine == BuildLine

SpecLine == InitLine /\ [][NextLine]_vars

-----------------------------------------------------------------------------
(* Reading a generated statement back.                                     *)

\* the "<expr> <name>" entries of the SELECT list of a staged read
SelectList(stmt) == Split(Between(stmt, "SELECT ", " FROM '@"), ", ")

\* the entries of the options clause, the last parenthesis of a staged read
OptionsOf(stmt) ==
    Split(SubSeq(stmt, LastIndex(stmt, "' (") + 1, Len(stmt) - 1), ", ")

HasOption(stmt, k) == \E i \in 1..Len(OptionsOf(stmt)) : OptionsOf(stmt)[i][1] = k

\* the text between the quotes of option k
OptionValue(stmt, k) ==
    LET opts == OptionsOf(stmt)
        i == CHOOSE j \in 1..Len(opts) : opts[j][1] = k
    IN SubSeq(opts[i], 3, Len(opts[i]) - 1)

\* the path after '@<stage>/' in the FROM clause
StagePath(stmt) ==
    LET loc == Between(stmt, " FROM '@", "' (")
    IN SubSeq(loc, IndexFrom(loc, "/", 1) + 1, Len(loc))

\* the warehouse matches a pattern against the whole object key; "." stands
\* for any one character
PatternMatches(pat, obj) ==
    /\ Len(pat) = Len(obj)
    /\ \A i \in 1..Len(pat) : pat[i] = "." \/ pat[i] = obj[i]

\* the objects of the stage a staged read loads: those under the FROM path
\* that match the pattern, when there is one
StagedRead(stmt, objects) ==
    {o \in objects :
        /\ IsPrefix(StagePath(stmt), o)
        /\ HasOption(stmt, "PATTERN") => PatternMatches(OptionValue(stmt, "PATTERN"), o)}

\* the staged read embedded in a COPY or MERGE statement
EmbeddedSelect(stmt) ==
    IF sqlCall = "copy"
    THEN SubSeq(stmt, IndexFrom(stmt, ") FROM (", 1) + 1, Len(stmt) - 1)
    ELSE Between(stmt, " t USING (", ") s ON ")

\* the target column list of a COPY statement
CopyTargets(stmt) == Split(Between(stmt, " (", ") FROM ("), ", ")

\* the alias of each entry of a SELECT list: its last token
Aliases(stmt) ==
    LET exprs == SelectList(stmt)
    IN [i \in 1..Len(exprs) |-> <<exprs[i][Len(exprs[i])]>>]

\* the three lists of a MERGE statement
MergeUpdateList(stmt) ==
    LET upd == Between(stmt, " THEN UPDATE SET ", "WHEN NOT MATCHED")
    IN Split(SubSeq(upd, 1, Len(upd) - 1), ", ")

MergeInsertCols(stmt) == Split(Between(stmt, "INSERT (", ") "), ", ")

MergeInsertValues(stmt) ==
    Split(SubSeq(stmt, IndexFrom(stmt, "VALUES (", 1) + 1, Len(stmt) - 1), ", ")

\* how many of the first i column expressions have an empty value
StagedUpTo(cols, i) == Cardinality({j \in 1..i : cols[j].value = <<>>})

-----------------------------------------------------------------------------
(* Claims about the load SQL generator.                                    *)

\* C1: select_from_stage gives the k-th column expression with an empty value
\* (k counted from 1 in list order) the source expression trans($k); an
\* expression with a literal value uses it verbatim and takes no index, so the
\* indices increase strictly along the list whatever literals come before.
C1_PositionalIndices ==
    sqlCall = "select" =>
        LET exprs == SelectList(statement)
        IN /\ Len(exprs) = Len(columns)
           /\ \A i \in 1..Len(columns) :
                IF columns[i].value = <<>>
                THEN exprs[i] = columns[i].trans
                                  \o <<"(", "$" \o ToString(StagedUpTo(columns, i)), ")", " ">>
                                  \o columns[i].name
                ELSE exprs[i] = columns[i].value \o <<" ">> \o columns[i].name
           /\ \A i, j \in 1..Len(columns) :
                (i < j /\ columns[i].value = <<>> /\ columns[j].value = <<>>)
                    => \E m, n \in 1..Len(columns) :
                          /\ m < n
                          /\ exprs[i][Len(exprs[i]) - 3] = "$" \o ToString(m)
                          /\ exprs[j][Len(exprs[j]) - 3] = "$" \o ToString(n)

\* C1 witness: a literal between two staged columns; the second staged column reads $2
C1_Witness ==
    /\ sqlCall = "select"
    /\ Len(columns) = 3
    /\ columns[1].value = <<>> /\ columns[2].value # <<>> /\ columns[3].value = <<>>
    /\ SelectList(statement)[1] = <<"to_number", "(", "$1", ")", " ", "a">>
    /\ SelectList(statement)[2] = <<"'x'", " ", "b">>
    /\ SelectList(statement)[3] = <<"(", "$2", ")", " ", "a">>

\* C5 as stated: for every input the MERGE statement holds exactly one WHEN
\* MATCHED and one WHEN NOT MATCHED clause, and its three lists have one entry
\* per input column, in order.
C5_OneClauseEachForEveryInput ==
    sqlCall = "merge" =>
        /\ Count(statement, "WHEN MATCHED") = 1
        /\ Count(statement, "WHEN NOT MATCHED") = 1
        /\ Len(MergeUpdateList(statement)) = Len(columns)
        /\ Len(MergeInsertCols(statement)) = Len(columns)
        /\ Len(MergeInsertValues(statement)) = Len(columns)
        /\ \A i \in 1..Len(columns) :
              /\ MergeUpdateList(statement)[i] = columns[i].name \o <<"=s.">> \o columns[i].name
              /\ MergeInsertCols(statement)[i] = columns[i].name
              /\ MergeInsertValues(statement)[i] = <<"s.">> \o columns[i].name

NoClauseKeyword(text) ==
    Count(text, "WHEN MATCHED") = 0 /\ Count(text, "WHEN NOT MATCHED") = 0

InterpolatedTexts ==
    {table_name, stage_name, s3_key, file_format_name, pk_merge_condition}
        \cup {columns[i].name : i \in 1..Len(columns)}
        \cup {columns[i].value : i \in 1..Len(columns)}
        \cup {columns[i].trans : i \in 1..Len(columns)}

\* C5 amended: when no interpolated string holds WHEN MATCHED or WHEN NOT
\* MATCHED text, the MERGE statement holds exactly one clause of each kind; for
\* every input its UPDATE SET, INSERT and VALUES lists have one entry per input
\* column, in order: name_i=s.name_i, name_i and s.name_i.
C5_OneClauseEach ==
    sqlCall = "merge" =>
        /\ (\A t \in InterpolatedTexts : NoClauseKeyword(t))
              => /\ Count(statement, "WHEN MATCHED") = 1
                 /\ Count(statement, "WHEN NOT MATCHED") = 1
        /\ LET upd == MergeUpdateList(statement)
               ins == MergeInsertCols(statement)
               vals == MergeInsertValues(statement)
           IN /\ Len(upd) = Len(columns) /\ Len(ins) = Len(columns) /\ Len(vals) = Len(columns)
              /\ \A i \in 1..Len(columns) :
                    /\ upd[i] = columns[i].name \o <<"=s.">> \o columns[i].name
                    /\ ins[i] = columns[i].name
                    /\ vals[i] = <<"s.">> \o columns[i].name

\* C5 witness: a MERGE over three columns, one of them a literal, with a plain
\* join condition
C5_Witness ==
    /\ sqlCall = "merge"
    /\ Len(columns) = 3
    /\ \E i \in 1..3 : columns[i].value # <<>>
    /\ NoClauseKeyword(pk_merge_condition)
    /\ Count(statement, "WHEN MATCHED") = 1
    /\ Len(MergeUpdateList(statement)) = 3

\* C6: the options clause of select_from_stage always holds the file format;
\* it holds a PATTERN exactly when restrict_file_pattern is set, its value is
\* the object key, and then a stage holding the object and its siblings (keys
\* with this key as a prefix) is read for that one object only.
C6_PatternScopesRead ==
    sqlCall = "select" =>
        /\ HasOption(statement, "FILE_FORMAT")
        /\ OptionValue(statement, "FILE_FORMAT") = file_format_name
        /\ HasOption(statement, "PATTERN") <=> restrict_file_pattern
        /\ restrict_file_pattern =>
              /\ OptionValue(statement, "PATTERN") = s3_key
              /\ StagedRead(statement, KeySet) = {s3_key}

\* C6 witness: a restricted read of a key that has a sibling on the stage
C6_Witness ==
    /\ sqlCall = "select"
    /\ restrict_file_pattern
    /\ \E o \in KeySet :
          /\ o # s3_key
          /\ IsPrefix(s3_key, o)
          /\ o \notin StagedRead(statement, KeySet)

\* C7: create_copy_sql and create_merge_sql embed exactly the statement
\* select_from_stage returns for the same columns, format, key, stage and
\* restrict flag, and the COPY target list has the aliases of the staged-read
\* expressions, in the same order.
C7_SharedStagedRead ==
    sqlCall \in {"copy", "merge"} =>
        /\ EmbeddedSelect(statement)
              = SelectFromStage(columns, file_format_name, s3_key, stage_name,
                                restrict_file_pattern)
        /\ sqlCall = "copy" =>
              /\ Len(CopyTargets(statement)) = Len(columns)
              /\ CopyTargets(statement) = Aliases(EmbeddedSelect(statement))
              /\ \A i \in 1..Len(columns) : CopyTargets(statement)[i] = columns[i].name

\* C7 witness: a restricted COPY of two differently named columns
C7_Witness ==
    /\ sqlCall = "copy"
    /\ restrict_file_pattern
    /\ Len(columns) >= 2
    /\ columns[1].name # columns[2].name
    /\ HasOption(EmbeddedSelect(statement), "PATTERN")
    /\ CopyTargets(statement)[2] = columns[2].name

-----------------------------------------------------------------------------
(* Reading an encoded file back, under the encoder's own convention: rows  *)
(* end in a newline, fields are separated by commas outside quotes, a      *)
(* quoted field is a string with backslash escapes, an unquoted field is   *)
(* true, false or a number, and a field of no characters is empty.         *)

RECURSIVE Lines(_)
\* the rows of a file's content: the texts before each newline (and what
\* follows the last newline, when the content does not end in one)
Lines(content) ==
    IF content = <<>> THEN <<>>
    ELSE LET p == IndexFrom(content, "\n", 1)
         IN IF p = 0 THEN <<content>>
            ELSE <<SubSeq(content, 1, p - 1)>> \o Lines(SubSeq(content, p + 1, Len(content)))

Terminated(content) == content = <<>> \/ content[Len(content)] = "\n"

RECURSIVE ScanFields(_, _, _, _, _)
\* the fields of a row from position i on: cur is the field being read, acc
\* the fields read, inQuote whether position i is inside a quoted string
ScanFields(row, i, inQuote, cur, acc) ==
    IF i > Len(row) THEN Append(acc, cur)
    ELSE IF inQuote
         THEN IF row[i] = "\\" /\ i < Len(row)
              THEN ScanFields(row, i + 2, TRUE, cur \o <<row[i], row[i + 1]>>, acc)
              ELSE ScanFields(row, i + 1, row[i] # "\"", Append(cur, row[i]), acc)
         ELSE IF row[i] = ","
              THEN ScanFields(row, i + 1, FALSE, <<>>, Append(acc, cur))
              ELSE ScanFields(row, i + 1, row[i] = "\"", Append(cur, row[i]), acc)

Fields(row) == ScanFields(row, 1, FALSE, <<>>, <<>>)

RECURSIVE Unescape(_)
Unescape(chars) ==
    IF chars = <<>> THEN <<>>
    ELSE IF chars[1] = "\\" /\ Len(chars) >= 2
         THEN <<IF chars[2] = "n" THEN "\n" ELSE chars[2]>>
                 \o Unescape(SubSeq(chars, 3, Len(chars)))
         ELSE <<chars[1]>> \o Unescape(Tail(chars))

EmptyField == [t |-> "empty", n |-> 0, s |-> <<>>]

Unreadable == [t |-> "unreadable", n |-> 0, s |-> <<>>]

\* the value a field stands for
DecodeField(f) ==
    IF f = <<>> THEN EmptyField
    ELSE IF f[1] = "\""
         THEN IF Len(f) >= 2 /\ f[Len(f)] = "\""
              THEN StrValue(Unescape(SubSeq(f, 2, Len(f) - 1)))
              ELSE Unreadable
    ELSE IF f = <<"true">> THEN BoolValue(TRUE)
    ELSE IF f = <<"false">> THEN BoolValue(FALSE)
    ELSE IF \E i \in 0..9 : f = <<ToString(i)>>
         THEN IntValue(CHOOSE i \in 0..9 : f = <<ToString(i)>>)
    ELSE Unreadable

\* the content of the file of call c
ContentOf(c) == fs[fname[c]].content

Started(c) == pc[c] \in {"write", "raised", "returned"}

-----------------------------------------------------------------------------
(* Claims about the batch encoder.                                         *)

\* C2: a successful encode produces as many newline-terminated rows as the
\* batch has records, and every row has exactly len(schema) delimited fields,
\* whatever the records hold.
C2_RowsAndFields ==
    \A c \in Calls :
        pc[c] = "returned" =>
            LET content == fs[result[c]].content
                rows == Lines(content)
            IN /\ fs[result[c]].exists
               /\ Terminated(content)
               /\ Count(content, "\n") = Len(batch[c])
               /\ Len(rows) = Len(batch[c])
               /\ \A i \in 1..Len(rows) : Len(Fields(rows[i])) = Len(schema)

\* C2 witness: two columns; a record missing a key and holding a null, and a
\* record whose strings hold the delimiter and a newline, both encoded
C2_Witness ==
    /\ pc[1] = "returned"
    /\ Len(schema) = 2
    /\ Len(batch[1]) = 2
    /\ DOMAIN batch[1][1] = {"c1"} /\ batch[1][1]["c1"] = NoneValue
    /\ DOMAIN batch[1][2] = {"c1", "c2"}
    /\ batch[1][2]["c1"] = StrValue(<<",", "\n">>)
    /\ batch[1][2]["c2"] = StrValue(<<",", "\n">>)
    /\ Len(Lines(fs[result[1]].content)) = 2

\* the values the filter lets through: zero, false, and what is truthy
PassesFilter(v) ==
    \/ v = IntValue(0)
    \/ v = BoolValue(FALSE)
    \/ v = BoolValue(TRUE)
    \/ v.t = "int" /\ v.n # 0
    \/ v.t = "str" /\ Len(v.s) > 0
    \/ v.t \in {"list", "dict"} /\ v.n > 0

\* C3: the field of a schema column is non-empty exactly when the flattened
\* record has the key and its value is 0, false or truthy; a missing key,
\* None, the empty string and an empty collection give an empty field.
C3_EmptinessFilter ==
    lineState = "built" =>
        LET fields == Fields(line)
        IN /\ Len(fields) = Len(schema)
           /\ \A j \in 1..Len(schema) :
                 (fields[j] # <<>>)
                    <=> (schema[j] \in DOMAIN lineFlat /\ PassesFilter(lineFlat[schema[j]]))
           /\ \A j \in 1..Len(schema) :
                 (\/ schema[j] \notin DOMAIN lineFlat
                  \/ lineFlat[schema[j]] \in {NoneValue, StrValue(<<>>), ListValue(0), DictValue(0)})
                    => fields[j] = <<>>

\* C3 witness: 0 and false are both emitted
C3_Witness ==
    /\ lineState = "built"
    /\ schema = <<"c1", "c2">>
    /\ DOMAIN lineFlat = {"c1", "c2"}
    /\ lineFlat["c1"] = IntValue(0)
    /\ lineFlat["c2"] = BoolValue(FALSE)
    /\ line = <<"0", ",", "false">>

IsScalar(v) == v.t \in {"bool", "int", "str"}

\* C4 as stated: every scalar a record holds in a schema column is read back
\* from its field; None and an absent key are read back as an empty field.
C4_RoundTripEveryScalar ==
    lineState = "built" =>
        \A j \in 1..Len(schema) :
            LET field == Fields(line)[j]
            IN IF schema[j] \in DOMAIN lineFlat /\ IsScalar(lineFlat[schema[j]])
               THEN DecodeField(field) = lineFlat[schema[j]]
               ELSE (schema[j] \notin DOMAIN lineFlat \/ lineFlat[schema[j]] = NoneValue)
                        => DecodeField(field) = EmptyField

\* C4 amended: every scalar other than the empty string that a record holds in
\* a schema column is read back from its field, 0 and false included; None, an
\* absent key and the empty string are all read back as an empty field.
C4_RoundTrip ==
    lineState = "built" =>
        /\ Len(Fields(line)) = Len(schema)
        /\ \A j \in 1..Len(schema) :
              LET field == Fields(line)[j]
                  present == schema[j] \in DOMAIN lineFlat
              IN /\ (present /\ IsScalar(lineFlat[schema[j]])
                             /\ lineFlat[schema[j]] # StrValue(<<>>))
                       => DecodeField(field) = lineFlat[schema[j]]
                 /\ (~present \/ lineFlat[schema[j]] \in {NoneValue, StrValue(<<>>)})
                       => DecodeField(field) = EmptyField

\* C4 witness: a string of a quote and a comma, and the number 0, read back
C4_Witness ==
    /\ lineState = "built"
    /\ schema = <<"c1", "c2">>
    /\ DOMAIN lineFlat = {"c1", "c2"}
    /\ lineFlat["c1"] = StrValue(<<"\"", ",">>)
    /\ lineFlat["c2"] = IntValue(0)
    /\ DecodeField(Fields(line)[1]) = StrValue(<<"\"", ",">>)
    /\ DecodeField(Fields(line)[2]) = IntValue(0)

\* a record whose line cannot be built: flattening fails on a nested value
\* under any key, or a schema column holds a value that cannot be serialized
Fails(record) ==
    \/ \E k \in DOMAIN record : record[k] = BadListValue
    \/ \E j \in 1..Len(schema) :
          schema[j] \in DOMAIN record /\ record[schema[j]] = ObjectValue

FirstFailure(b) ==
    CHOOSE k \in 1..Len(b) : Fails(b[k]) /\ \A i \in 1..(k - 1) : ~Fails(b[i])

\* C8: when a record of the batch cannot be flattened or serialized the encode
\* aborts: the call never returns a path, nothing is written for the failing
\* record or any later one, and the one file of the call holds the complete
\* rows of the records before the failing one and nothing else.
C8_FailureAbortsEncode ==
    \A c \in Calls :
        (Started(c) /\ \E i \in 1..Len(batch[c]) : Fails(batch[c][i])) =>
            LET k == FirstFailure(batch[c])
                rows == Lines(ContentOf(c))
            IN /\ pc[c] # "returned"
               /\ result[c] = NoPath
               /\ Cardinality({p \in Paths : fs[p].exists}) = 1
               /\ Terminated(ContentOf(c))
               /\ Len(rows) < k
               /\ \A i \in 1..Len(rows) :
                     rows[i] = RecordToCsvLine(batch[c][i], schema, DataFlatteningMaxLevel).text
               /\ pc[c] = "raised" => Len(rows) = k - 1

\* C8 witness: the second record fails; the file holds the first record's row
C8_Witness ==
    /\ pc[1] = "raised"
    /\ Len(batch[1]) = 2
    /\ ~Fails(batch[1][1]) /\ Fails(batch[1][2])
    /\ result[1] = NoPath
    /\ Len(Lines(ContentOf(1))) = 1

\* C9: under any interleaving of concurrent calls each call creates exactly
\* one file, no two calls get the same path, and every file holds only rows
\* of its own call.
C9_OwnFilePerCall ==
    /\ \A c \in Calls : Started(c) => fname[c] \in Paths /\ fs[fname[c]].exists
    /\ \A c, d \in Calls : (c # d /\ Started(c) /\ Started(d)) => fname[c] # fname[d]
    /\ Cardinality({p \in Paths : fs[p].exists}) = Cardinality({c \in Calls : Started(c)})
    /\ \A c \in Calls :
          Started(c) =>
              /\ Terminated(ContentOf(c))
              /\ Lines(ContentOf(c)) = [i \in 1..(pos[c] - 1) |-> <<ToString(c)>>]
    /\ \A c \in Calls : pc[c] = "returned" => result[c] = fname[c]

\* C9 witness: two calls in the middle of their loops at the same time, each
\* with a row of its own in its own file
C9_Witness ==
    /\ pc[1] = "write" /\ pc[2] = "write"
    /\ pos[1] = 2 /\ pos[2] = 2
    /\ fname[1] # fname[2]
    /\ ContentOf(1) = <<"1", "\n">>
    /\ ContentOf(2) = <<"2", "\n">>

\* what the field of a column reads back as: the record's value, a nested
\* value as the string the flattener made of it, and an empty field for an
\* absent key, None and the empty string
ExpectedField(record, column) ==
    IF column \notin DOMAIN record THEN EmptyField
    ELSE IF record[column] \in {NoneValue, StrValue(<<>>)} THEN EmptyField
    ELSE IF record[column].t \in {"list", "dict"} THEN StrValue(JsonDumps(record[column]))
    ELSE record[column]

\* C10: field j of every row encodes the j-th schema column of the record (no
\* other key is emitted), rows are in the batch's order, and the staged read
\* over the schema's columns reads column j from positional reference $j.
C10_ColumnOrder ==
    /\ \A c \in Calls :
          (Started(c) /\ ~\E i \in 1..Len(batch[c]) : Fails(batch[c][i])) =>
              LET rows == Lines(ContentOf(c))
              IN /\ Len(rows) = pos[c] - 1
                 /\ \A i \in 1..Len(rows) :
                       /\ Len(Fields(rows[i])) = Len(schema)
                       /\ \A j \in 1..Len(schema) :
                             DecodeField(Fields(rows[i])[j])
                                = ExpectedField(batch[c][i], schema[j])
    /\ (sqlCall = "select" /\ \E c \in Calls : Started(c)) =>
          /\ Len(SelectList(statement)) = Len(schema)
          /\ \A j \in 1..Len(schema) :
                SelectList(statement)[j] = <<"(", "$" \o ToString(j), ")", " ", schema[j]>>

\* C10 witness: schema c2, c1; a record with an extra key and a record missing
\* c2; the file is written and the staged read built
C10_Witness ==
    /\ pc[1] = "returned"
    /\ sqlCall = "select"
    /\ schema = <<"c2", "c1">>
    /\ Len(batch[1]) = 2
    /\ DOMAIN batch[1][1] = {"c1", "x"}
    /\ batch[1][2] = [k \in {"c1", "c2"} |->
                         IF k = "c1" THEN IntValue(0) ELSE StrValue(<<",", "\n">>)]
    /\ ContentOf(1) = <<",", "1", "\n",
                        "\"", ",", "\\", "n", "\"", ",", "0", "\n">>
    /\ SelectList(statement) = << <<"(", "$1", ")", " ", "c2">>, <<"(", "$2", ")", " ", "c1">> >>

====
